---- MODULE Spec2Model ----
(***************************************************************************)
(* pocket-sync: the Layout view switcher, the Recoil atoms of the global   *)
(* store, and the CoreInfo panel.                                          *)
(*                                                                         *)
(* Two specifications share the variables:                                 *)
(*   Spec          Layout and the atoms (CoreInfo is not mounted)          *)
(*   SpecCoreInfo  the CoreInfo panel over every upstream record           *)
(***************************************************************************)
EXTENDS Integers, Sequences, FiniteSets, TLC

\* Bounds of the model.
MaxClock == 3      \* the millisecond clock runs over 0..MaxClock
MaxToken == 4      \* the invalidation counters run over 0..MaxToken
MaxAdapter == 3    \* cartridge_adapter ranges over -MaxAdapter..MaxAdapter

VARIABLES
    viewName,        \* Layout: useState("")
    screenshotsData, \* data backing <Screenshots />: "idle", "pending", "ready"
    store,           \* Recoil store: atom key -> current value
    clock,           \* the wall clock Date.now() reads, in milliseconds
    coreInfo,        \* CoreInfo: value of CoreInfoSelectorFamily(coreName)
    inventoryItem,   \* CoreInfo: value of useInventoryItem(coreName)
    panel,           \* CoreInfo: what the component has rendered
    lastOp           \* the event handled last: [op, arg]

vars == <<viewName, screenshotsData, store, clock, coreInfo, inventoryItem,
          panel, lastOp>>

layoutVars == <<viewName, screenshotsData>>
coreVars == <<coreInfo, inventoryItem, panel>>

Op(o, a) == [op |-> o, arg |-> a]

-----------------------------------------------------------------------------
(* JavaScript values, tagged with their type.                              *)

Null == [type |-> "null"]
Undefined == [type |-> "undefined"]
Str(s) == [type |-> "string", value |-> s]

\* ToBoolean, as `value && jsx` applies it.
Truthy(v) ==
    CASE v.type = "null" -> FALSE
      [] v.type = "undefined" -> FALSE
      [] v.type = "string" -> v.value # ""
      [] v.type = "object" -> TRUE

-----------------------------------------------------------------------------
(* recoil/atoms.ts                                                         *)

\* Date.now(): the wall clock, millisecond resolution.
DateNow == clock

pocketPathAtom ==
    [name |-> "pocketPathAtom", key |-> "pocketPathAtom"]

fileSystemInvalidationAtom ==
    [name |-> "fileSystemInvalidationAtom", key |-> "fileSystemInvalidationAtom"]

PocketModelColourAtom ==
    [name |-> "PocketModelColourAtom", key |-> "PocketModelColourAtom"]

\* A copy-pasted atom that kept the key of the atom it was copied from.
iventoryInvalidationAtom_copiedKey ==
    [name |-> "iventoryInvalidationAtom", key |-> "fileSystemInvalidationAtom"]

iventoryInvalidationAtom ==
    [name |-> "iventoryInvalidationAtom", key |-> "iventoryInvalidationAtom"]

configInvalidationAtom ==
    [name |-> "configInvalidationAtom", key |-> "configInvalidationAtom"]

InvalidationAtoms ==
    {fileSystemInvalidationAtom, iventoryInvalidationAtom, configInvalidationAtom}

Atoms == {pocketPathAtom, PocketModelColourAtom} \cup InvalidationAtoms

\* useRecoilValue(atom) / set(atom, v): the store is keyed by the atom's key.
Read(atom) == store[atom.key]
Set(atom, v) == [store EXCEPT ![atom.key] = v]

\* The store after the module is evaluated: every atom holds its default.
\* The three Date.now() defaults are taken in source order, at t1 <= t2 <= t3.
DefaultStore(t1, t2, t3) ==
    (pocketPathAtom.key :> Null)
    @@ (fileSystemInvalidationAtom.key :> t1)
    @@ (PocketModelColourAtom.key :> "black")
    @@ (iventoryInvalidationAtom.key :> t2)
    @@ (configInvalidationAtom.key :> t3)

PocketPaths == {Null, Str("/Volumes/POCKET")}
Colours == {"black", "white"}

-----------------------------------------------------------------------------
(* components/layout/index.tsx                                             *)

views == <<"Games", "Cores", "Screenshots", "Saves">>

Labels == {views[i] : i \in 1..Len(views)}

\* The comparison turned around: every label but the selected one is marked.
MenuItemClass_inverted(v) ==
    <<"layout__sidebar-menu-item",
      IF viewName # v THEN "layout__sidebar-menu-item--active" ELSE "">>

\* className of the menu item of label v, as its list of class tokens.
MenuItemClass(v) ==
    <<"layout__sidebar-menu-item",
      IF viewName = v THEN "layout__sidebar-menu-item--active" ELSE "">>

ActiveLabels ==
    {views[i] : i \in {j \in 1..Len(views) :
        MenuItemClass(views[j])[2] = "layout__sidebar-menu-item--active"}}

\* onClick handler that toggles the selection off when the active label is
\* clicked again.
setViewName_toggle(v) == IF viewName = v THEN "" ELSE v

\* setViewName(v): the next value of the state.
setViewName(v) == v

\* The Screenshots view shown for every selected label.
ContentChildren_anySelected(vn) ==
    IF vn # "" THEN <<"Screenshots">> ELSE <<>>

\* {viewName === "Screenshots" && <Screenshots />}: `false` renders nothing.
ContentChildren(vn) ==
    IF vn = "Screenshots" THEN <<"Screenshots">> ELSE <<>>

\* <Screenshots /> suspends while its backing data has not resolved.
Suspended(children) ==
    \E i \in 1..Len(children) :
        children[i] = "Screenshots" /\ screenshotsData # "ready"

\* A boundary that keeps the suspended subtree next to the fallback.
Suspense_both(fallback, children) ==
    IF Suspended(children) THEN fallback \o children ELSE children

\* <Suspense fallback={...}>: the fallback replaces a suspended subtree.
Suspense(fallback, children) ==
    IF Suspended(children) THEN fallback ELSE children

\* The children of <div className="layout__content">.
LayoutContent == Suspense(<<"Loader">>, ContentChildren(viewName))

\* Click that also records the view in the global store.
Click_global(v) ==
    /\ viewName' = setViewName(v)
    /\ screenshotsData' =
          IF ContentChildren(setViewName(v)) # <<>> /\ screenshotsData = "idle"
          THEN "pending" ELSE screenshotsData
    /\ store' = Set(pocketPathAtom, Str(v))
    /\ lastOp' = Op("click", v)
    /\ UNCHANGED <<clock, coreVars>>

\* onClick={() => setViewName(v)}; mounting <Screenshots /> for the first
\* time starts loading its data.
Click(v) ==
    /\ viewName' = setViewName(v)
    /\ screenshotsData' =
          IF ContentChildren(setViewName(v)) # <<>> /\ screenshotsData = "idle"
          THEN "pending" ELSE screenshotsData
    /\ lastOp' = Op("click", v)
    /\ UNCHANGED <<store, clock, coreVars>>

\* The data backing <Screenshots /> resolves.
Resolve ==
    /\ screenshotsData = "pending"
    /\ screenshotsData' = "ready"
    /\ lastOp' = Op("resolve", "")
    /\ UNCHANGED <<viewName, store, clock, coreVars>>

-----------------------------------------------------------------------------
(* Writers of the atoms, elsewhere in the UI.                              *)

\* A millisecond passes.
Tick ==
    /\ clock < MaxClock
    /\ clock' = clock + 1
    /\ lastOp' = Op("tick", "")
    /\ UNCHANGED <<layoutVars, store, coreVars>>

\* A writer that stores the current timestamp, as the atoms' defaults do.
Bump_timestamp(atom) ==
    /\ store' = Set(atom, DateNow)
    /\ lastOp' = Op("bump", atom.name)
    /\ UNCHANGED <<layoutVars, clock, coreVars>>

\* Bump an invalidation counter: the counter is an opaque token and every
\* update replaces it by a strictly greater one.
Bump(atom) ==
    /\ Read(atom) < MaxToken
    /\ \E t \in (Read(atom) + 1)..MaxToken : store' = Set(atom, t)
    /\ lastOp' = Op("bump", atom.name)
    /\ UNCHANGED <<layoutVars, clock, coreVars>>

SetPocketPath(p) ==
    /\ store' = Set(pocketPathAtom, p)
    /\ lastOp' = Op("setPocketPath", pocketPathAtom.name)
    /\ UNCHANGED <<layoutVars, clock, coreVars>>

SetColour(c) ==
    /\ store' = Set(PocketModelColourAtom, c)
    /\ lastOp' = Op("setColour", PocketModelColourAtom.name)
    /\ UNCHANGED <<layoutVars, clock, coreVars>>

-----------------------------------------------------------------------------
(* components/cores/info/index.tsx                                         *)

Urls ==
    {Null, Undefined, Str(""), Str(" "), Str("https://github.com/agg23/openfpga-pong")}

Platforms == {"github", "gitlab", "GitHub", ""}

Item(p) == [type |-> "object", repository |-> [platform |-> p]]

\* What the upstream selectors resolve to for a core name.
CoreInfos == [url : Urls, cartridge_adapter : (0 - MaxAdapter)..MaxAdapter]
InventoryItems == {Null, Undefined} \cup {Item(p) : p \in Platforms}

\* A URL row for every url that is not null or undefined.
UrlRows_notNull(url) ==
    IF url.type = "string"
    THEN <<[label |-> "URL:", href |-> url.value, text |-> url.value]>>
    ELSE <<>>

\* {metadata.url && (<div> <strong>URL:</strong> <Link href={url}>{url}</Link>
\* </div>)}: a falsy left operand is rendered as nothing.
UrlRows(url) ==
    IF Truthy(url)
    THEN <<[label |-> "URL:", href |-> url.value, text |-> url.value]>>
    ELSE <<>>

\* A check that takes every negative identifier for "none".
CartridgeChecked_nonNegative(cartridge_adapter) == cartridge_adapter > -1

\* checked={coreInfo.core.framework.hardware.cartridge_adapter !== -1}
CartridgeChecked(cartridge_adapter) == cartridge_adapter # -1

\* A panel shown for every inventory item, whatever its platform.
ReleasesPanel_anyPlatform(item) ==
    IF Truthy(item) THEN <<[inventoryItem |-> item]>> ELSE <<>>

\* {inventoryItem && inventoryItem.repository.platform === "github" &&
\*   (<Releases inventoryItem={inventoryItem} />)}
ReleasesPanel(item) ==
    IF Truthy(item) /\ item.repository.platform = "github"
    THEN <<[inventoryItem |-> item]>>
    ELSE <<>>

\* The rows of the panel the claims are about.
CoreInfo(info, item) ==
    [mounted |-> TRUE,
     urlRows |-> UrlRows(info.url),
     cartridgeChecked |-> CartridgeChecked(info.cartridge_adapter),
     releases |-> ReleasesPanel(item)]

Unmounted ==
    [mounted |-> FALSE, urlRows |-> <<>>, cartridgeChecked |-> FALSE,
     releases |-> <<>>]

NoCore == [url |-> Undefined, cartridge_adapter |-> 0]

\* The parent mounts <CoreInfo coreName=... /> and the component renders.
Render ==
    /\ ~panel.mounted
    /\ panel' = CoreInfo(coreInfo, inventoryItem)
    /\ lastOp' = Op("render", "")
    /\ UNCHANGED <<layoutVars, store, clock, coreInfo, inventoryItem>>

\* "Back to list": the panel goes away and the user picks a core again.
OnBack ==
    /\ panel.mounted
    /\ panel' = Unmounted
    /\ coreInfo' \in CoreInfos
    /\ inventoryItem' \in InventoryItems
    /\ lastOp' = Op("back", "")
    /\ UNCHANGED <<layoutVars, store, clock>>

-----------------------------------------------------------------------------
(* Specifications                                                          *)

Init ==
    /\ viewName = ""
    /\ screenshotsData = "idle"
    /\ \E t1, t2, t3 \in 0..MaxClock :
          /\ t1 <= t2 /\ t2 <= t3
          /\ store = DefaultStore(t1, t2, t3)
          /\ clock = t3
    /\ coreInfo = NoCore
    /\ inventoryItem = Null
    /\ panel = Unmounted
    /\ lastOp = Op("init", "")

Next ==
    \/ \E v \in Labels : Click(v)
    \/ Resolve
    \/ Tick
    \/ \E a \in InvalidationAtoms : Bump(a)
    \/ \E p \in PocketPaths : SetPocketPath(p)
    \/ \E c \in Colours : SetColour(c)

Spec == Init /\ [][Next]_vars

InitCoreInfo ==
    /\ viewName = ""
    /\ screenshotsData = "idle"
    /\ store = DefaultStore(0, 0, 0)
    /\ clock = 0
    /\ coreInfo \in CoreInfos
    /\ inventoryItem \in InventoryItems
    /\ panel = Unmounted
    /\ lastOp = Op("init", "")

NextCoreInfo ==
    \/ Render
    \/ OnBack

SpecCoreInfo == InitCoreInfo /\ [][NextCoreInfo]_vars

-----------------------------------------------------------------------------
(* Layout: selection                                                       *)

\* C1: clicking a menu label sets the active view to exactly that label and
\* marks that label and no other as active; clicking the label that is
\* already active changes nothing.
C1_ClickSelectsLabel ==
    [][\A v \in Labels :
          lastOp' = Op("click", v) =>
              /\ viewName' = v
              /\ ActiveLabels' = {v}
              /\ viewName = v =>
                    <<viewName, screenshotsData, store, clock>>'
                        = <<viewName, screenshotsData, store, clock>>]_vars

\* Cores is clicked while it is already the active view.
C1_Witness ==
    /\ lastOp = Op("click", "Cores")
    /\ viewName = "Cores"
    /\ ActiveLabels = {"Cores"}
    /\ clock > 0

\* C2: whenever the active view is not "Screenshots" the content region has
\* no children, neither the Screenshots view nor the loader; the Screenshots
\* view is rendered only when the active view is "Screenshots".
C2_NoContentUnlessScreenshots ==
    /\ viewName # "Screenshots" => LayoutContent = <<>>
    /\ (\E i \in 1..Len(LayoutContent) : LayoutContent[i] = "Screenshots")
          => viewName = "Screenshots"

\* Another view is selected while the Screenshots data is still loading.
C2_Witness ==
    /\ viewName = "Saves"
    /\ screenshotsData = "pending"
    /\ LayoutContent = <<>>

\* C8: while "Screenshots" is active and its data has not resolved, the
\* content region is exactly the loader; once resolved it is exactly the
\* Screenshots view; and while Screenshots stays selected only the data
\* resolving ends the loader.
C8_LoaderUntilResolved ==
    /\ [](viewName = "Screenshots" =>
            /\ screenshotsData # "ready" => LayoutContent = <<"Loader">>
            /\ screenshotsData = "ready" => LayoutContent = <<"Screenshots">>)
    /\ [][(/\ viewName = "Screenshots"
           /\ LayoutContent = <<"Loader">>
           /\ viewName' = "Screenshots"
           /\ lastOp'.op # "resolve") => LayoutContent' = <<"Loader">>]_vars
    /\ [][(/\ LayoutContent = <<"Loader">>
           /\ lastOp'.op = "resolve") => LayoutContent' = <<"Screenshots">>]_vars

\* Time has passed and the loader is still what Screenshots shows.
C8_Witness ==
    /\ viewName = "Screenshots"
    /\ screenshotsData = "pending"
    /\ lastOp.op = "tick"
    /\ clock = MaxClock
    /\ LayoutContent = <<"Loader">>

\* C9: Layout starts with the empty view, nothing active and nothing shown;
\* the active view is always the empty value or one of the four labels, with
\* at most one label active; once a label is selected the view is never
\* empty again.
C9_SelectionInvariant ==
    /\ viewName = "" /\ ActiveLabels = {} /\ LayoutContent = <<>>
    /\ [](/\ viewName \in Labels \cup {""}
          /\ Cardinality(ActiveLabels) <= 1
          /\ ActiveLabels = {viewName} \cap Labels)
    /\ [][/\ viewName # "" => viewName' # ""
          /\ lastOp'.op = "click" => viewName' # ""]_vars

\* A label was selected, other events followed, and it is still selected.
C9_Witness ==
    /\ viewName = "Games"
    /\ lastOp.op = "resolve"
    /\ ActiveLabels = {"Games"}

-----------------------------------------------------------------------------
(* The atoms                                                               *)

C4_BumpFrame ==
    [][\A a \in InvalidationAtoms :
          lastOp' = Op("bump", a.name) =>
              \A b \in Atoms :
                  b.name # a.name => Read(b)' = Read(b) /\ b.key # a.key]_vars

\* The inventory counter was bumped past the other two.
C4_Witness ==
    /\ lastOp = Op("bump", iventoryInvalidationAtom.name)
    /\ Read(iventoryInvalidationAtom) > Read(fileSystemInvalidationAtom)
    /\ Read(iventoryInvalidationAtom) > Read(configInvalidationAtom)
    /\ Read(pocketPathAtom) # Null
    /\ Read(PocketModelColourAtom) = "white"

\* C10: clicking a menu label changes none of the five atoms, and writing an
\* atom does not change the active view.
C10_ViewLocalToLayout ==
    [][/\ lastOp'.op = "click" => \A a \in Atoms : Read(a)' = Read(a)
       /\ lastOp'.op \in {"bump", "setPocketPath", "setColour"}
             => viewName' = viewName]_vars

\* A label is clicked after the atoms were written, and they keep their
\* values.
C10_Witness ==
    /\ lastOp = Op("click", "Saves")
    /\ Read(pocketPathAtom) = Str("/Volumes/POCKET")
    /\ Read(PocketModelColourAtom) = "white"
    /\ Read(fileSystemInvalidationAtom) = MaxClock

-----------------------------------------------------------------------------
(* CoreInfo                                                                *)

IsAbsent(v) == v.type \in {"null", "undefined"}

\* C5 as stated: zero URL rows when the url is null or absent, and exactly
\* one URL row, with the url as link text and target, for every other url,
\* the empty string included.
C5_UrlRowForEveryNonNull ==
    panel.mounted =>
        IF IsAbsent(coreInfo.url)
        THEN panel.urlRows = <<>>
        ELSE /\ Len(panel.urlRows) = 1
             /\ panel.urlRows[1].href = coreInfo.url.value
             /\ panel.urlRows[1].text = coreInfo.url.value

\* C5 amended: zero URL rows when the url is null, absent or the empty
\* string, and exactly one URL row, with the url as link text and target,
\* for every non-empty url.
C5_UrlRowForEveryNonEmpty ==
    panel.mounted =>
        IF IsAbsent(coreInfo.url) \/ coreInfo.url = Str("")
        THEN panel.urlRows = <<>>
        ELSE /\ Len(panel.urlRows) = 1
             /\ panel.urlRows[1].href = coreInfo.url.value
             /\ panel.urlRows[1].text = coreInfo.url.value

\* A core whose url is the empty string is shown without a URL row.
C5_Witness ==
    /\ panel.mounted
    /\ coreInfo.url = Str("")
    /\ panel.urlRows = <<>>

\* C6: the cartridge checkbox is checked exactly when the adapter identifier
\* differs from -1.
C6_CartridgeCheckedIffNotSentinel ==
    panel.mounted =>
        /\ coreInfo.cartridge_adapter = -1 => ~panel.cartridgeChecked
        /\ coreInfo.cartridge_adapter < -1 => panel.cartridgeChecked
        /\ coreInfo.cartridge_adapter > -1 => panel.cartridgeChecked

\* A core with another negative identifier is shown as supporting cartridges.
C6_Witness ==
    /\ panel.mounted
    /\ coreInfo.cartridge_adapter = -2
    /\ panel.cartridgeChecked

\* C7: the releases sub-panel is shown exactly when an inventory item exists
\* and its repository platform is "github"; otherwise nothing is rendered in
\* its place.
C7_ReleasesIffGithub ==
    panel.mounted =>
        IF inventoryItem \in {Item(p) : p \in {"github"}}
        THEN panel.releases = <<[inventoryItem |-> inventoryItem]>>
        ELSE panel.releases = <<>>

\* An inventory item on another platform is shown without the sub-panel.
C7_Witness ==
    /\ panel.mounted
    /\ inventoryItem = Item("gitlab")
    /\ panel.releases = <<>>

====
